---- MODULE Spec2Model ----
(***************************************************************************)
(* Model of scripts/pipeline.py of etna: the script runner, the status     *)
(* line protocol, the per-book status store, the run-all aggregation of    *)
(* script_menu and the certificate gate.                                   *)
(*                                                                         *)
(* Text is modelled as a sequence of characters.  The characters that the  *)
(* code distinguishes are kept apart:                                      *)
(*   "OK" = U+2705, "FAIL" = U+274C, "WARN" = U+26A0, "VS16" = U+FE0F,     *)
(*   "INFO" = U+1F4DD, "NOTRUN" = U+23FA, "UNKNOWN" = U+2754,              *)
(*   "SP" = a whitespace character, anything else = ordinary text.         *)
(* Optional[str] is modelled with None = <<>>: every consumer in the code  *)
(* tests truthiness only, so None and "" are indistinguishable there.      *)
(***************************************************************************)
EXTENDS Integers, Sequences, FiniteSets, TLC

\* ---------------------------------------------------------------- bounds
\* Child exit codes are drawn from 0..MaxRc.
MaxRc == 1
\* Reads that return nothing while the child is alive are followed up to
\* MaxPolls times.
MaxPolls == 2
\* Lines given to the text functions have at most MaxLen characters.
MaxLen == 5
\* The book folder holds 0..MaxDocx .docx files directly in its root.
MaxDocx == 2

\* ------------------------------------------------------ program constants
INTERRUPT_RC == 130
RUNNER_ERROR_RC == 1

None == <<>>

NOT_RUN_ICON == <<"NOTRUN">>
INFO_ONLY_ICON == <<"INFO">>
SUCCESS_ICON == <<"OK">>
FAILURE_ICON == <<"FAIL">>
WARNING_ICON == <<"WARN", "VS16">>
UNKNOWN_ICON == <<"UNKNOWN">>

\* The rule-based scripts the menu can discover, in sorted() order.
AllScripts == <<"02_clean_structure.py", "05_name_drift_check.py", "08_ward_audit.py">>

INFO_ONLY_SCRIPTS == {"08_ward_audit.py", "10_like_and_crutchwords.py", "11_repetition_patterns.py"}

is_info_only_script(script_name) == script_name \in INFO_ONLY_SCRIPTS

\* A file of the script folder that is not a script.
OtherFile == "notes.txt"

\* Path.suffix of the file names used here.
Suffix(script_name) ==
    IF script_name \in {AllScripts[i] : i \in DOMAIN AllScripts} THEN ".py"
    ELSE IF script_name = OtherFile THEN ".txt"
    ELSE ""

\* Whether run_script has a command for the file (lines 261-266).
Supported(script_name) == Suffix(script_name) \in {".py", ".sh"}

\* ------------------------------------------------------------ text helpers
IsWs(c) == c = "SP"

RECURSIVE LStrip(_)
LStrip(s) == IF s = <<>> THEN s
             ELSE IF IsWs(Head(s)) THEN LStrip(Tail(s)) ELSE s

RECURSIVE RStrip(_)
RStrip(s) == IF s = <<>> THEN s
             ELSE IF IsWs(s[Len(s)]) THEN RStrip(SubSeq(s, 1, Len(s) - 1)) ELSE s

\* str.strip()
Strip(s) == RStrip(LStrip(s))

\* str.startswith(prefix)
StartsWith(s, prefix) ==
    /\ Len(s) >= Len(prefix)
    /\ SubSeq(s, 1, Len(prefix)) = prefix

\* STATUS_LINE_RE without the whitespace after the icon.
STATUS_LINE_RE_NoSpace(s) ==
    /\ Len(s) >= 1
    /\ s[1] \in {"OK", "FAIL", "WARN"}

\* STATUS_LINE_RE.match(s): one of the three icons, an optional U+FE0F,
\* then at least one whitespace character.
STATUS_LINE_RE(s) ==
    /\ Len(s) >= 2
    /\ s[1] \in {"OK", "FAIL", "WARN"}
    /\ \/ IsWs(s[2])
       \/ /\ s[2] = "VS16"
          /\ Len(s) >= 3
          /\ IsWs(s[3])

_extract_status_line(line) ==
    LET s == Strip(line)
    IN  IF s = <<>> THEN None
        ELSE IF STATUS_LINE_RE(s) THEN s ELSE None

\* _status_icon_from_status_line that keeps a bare warning sign as it is.
_status_icon_from_status_line_BareWarning(status_line) ==
    IF status_line = None THEN NOT_RUN_ICON
    ELSE LET s == Strip(status_line)
         IN  IF s = <<>> THEN NOT_RUN_ICON
             ELSE IF s[1] = "OK" THEN SUCCESS_ICON
             ELSE IF s[1] = "FAIL" THEN FAILURE_ICON
             ELSE IF s[1] = "WARN" THEN <<"WARN">>
             ELSE IF s[1] = "INFO" THEN INFO_ONLY_ICON
             ELSE UNKNOWN_ICON

_status_icon_from_status_line(status_line) ==
    IF status_line = None THEN NOT_RUN_ICON
    ELSE LET s == Strip(status_line)
         IN  IF s = <<>> THEN NOT_RUN_ICON
             ELSE IF s[1] = "OK" THEN SUCCESS_ICON
             ELSE IF s[1] = "FAIL" THEN FAILURE_ICON
             ELSE IF s[1] = "WARN" THEN WARNING_ICON
             ELSE IF s[1] = "INFO" THEN INFO_ONLY_ICON
             ELSE UNKNOWN_ICON

FailedLine(script_name, rc) ==
    <<"FAIL", "SP", script_name, "SP", "failed (exit", ToString(rc), ")">>

\* NoVerdictLine with the warning sign written without U+FE0F.
NoVerdictLine_BareWarning(script_name) ==
    <<"WARN", "SP", "SP", script_name, "SP", "finished - no status one-liner detected">>

NoVerdictLine(script_name) ==
    <<"WARN", "VS16", "SP", "SP", script_name, "SP", "finished - no status one-liner detected">>

InterruptedLine(script_name) ==
    <<"FAIL", "SP", script_name, "SP", "interrupted (Ctrl+C)">>

RunnerErrorLine(script_name) ==
    <<"FAIL", "SP", script_name, "SP", "runner error">>

UnsupportedLine(script_name) ==
    <<"FAIL", "SP", "Unsupported script type:", "SP", script_name>>

\* canonical_status_line that hands back what it was given.
canonical_status_line_NoSynthesis(script_name, rc, status_line) == status_line

canonical_status_line(script_name, rc, status_line) ==
    IF status_line # None THEN status_line
    ELSE IF rc # 0 THEN FailedLine(script_name, rc)
    ELSE NoVerdictLine(script_name)


\* ------------------------------------------------------------ status store
EmptyMap == [k \in {} |-> None]

AbsentStore == [kind |-> "absent", map |-> EmptyMap]

\* The exception read_text or json.loads raises inside load_last_status
\* (line 161): the file is absent, cannot be read, or ("corrupt") does not
\* hold JSON text.
LoadException(st) ==
    IF st.kind = "absent" THEN "FileNotFoundError"
    ELSE IF st.kind = "unreadable" THEN "PermissionError"
    ELSE IF st.kind = "corrupt" THEN "JSONDecodeError"
    ELSE "none"

\* The exception classes that derive from Exception.
ExceptionClasses == {"FileNotFoundError", "PermissionError", "JSONDecodeError"}

\* Whether the handlers of load_last_status let the exception through
\* (lines 165-169).
LoadEscapes(exc) ==
    exc # "none" /\ exc # "FileNotFoundError" /\ exc \notin ExceptionClasses

\* load_last_status that returns whatever entries the file's text shows.
load_last_status_TrustsContent(st) == st.map

\* load_last_status: the mapping in the file when the file holds a JSON
\* object, {} for an absent file, for one that cannot be read or parsed
\* and for JSON that is not an object (lines 157-170).  The values of the
\* files considered are JSON strings, which str() returns unchanged.
load_last_status(st) ==
    IF LoadException(st) # "none" THEN EmptyMap
    ELSE IF st.kind = "valid" THEN st.map
    ELSE EmptyMap

\* What write_text can do: succeed, fail before touching the file (open
\* refused), or fail after open("w") has truncated it.
WriteOutcomes == {"ok", "fail_untouched", "fail_truncated"}

save_last_status(st, status_map, w) ==
    IF w = "ok" THEN [kind |-> "valid", map |-> status_map]
    ELSE IF w = "fail_truncated" THEN [kind |-> "corrupt", map |-> EmptyMap]
    ELSE st

\* StatusIconFor with the informational test taken before the exit code.
StatusIconFor_InfoFirst(script_name, rc, status_line) ==
    IF is_info_only_script(script_name) THEN INFO_ONLY_ICON
    ELSE IF rc # 0 THEN FAILURE_ICON
    ELSE _status_icon_from_status_line(status_line)

\* The icon update_last_status computes (lines 188-193).
StatusIconFor(script_name, rc, status_line) ==
    IF rc # 0 THEN FAILURE_ICON
    ELSE IF is_info_only_script(script_name) THEN INFO_ONLY_ICON
    ELSE _status_icon_from_status_line(status_line)

SetEntry(status_map, key, value) ==
    [k \in (DOMAIN status_map) \cup {key} |-> IF k = key THEN value ELSE status_map[k]]

\* update_last_status that saves a fresh one-key mapping instead of the
\* loaded one.
update_last_status_FreshMap(st, script_name, rc, status_line, w) ==
    save_last_status(st, SetEntry(EmptyMap, script_name,
                                  StatusIconFor(script_name, rc, status_line)), w)

\* update_last_status that adds the new icon to the one already stored.
update_last_status_Accumulates(st, script_name, rc, status_line, w) ==
    LET status_map == load_last_status(st)
        icon == StatusIconFor(script_name, rc, status_line)
        old == IF script_name \in DOMAIN status_map THEN status_map[script_name] ELSE <<>>
    IN  save_last_status(st, SetEntry(status_map, script_name, old \o icon), w)

update_last_status(st, script_name, rc, status_line, w) ==
    LET status_map == load_last_status(st)
        icon == StatusIconFor(script_name, rc, status_line)
    IN  save_last_status(st, SetEntry(status_map, script_name, icon), w)

\* The icon the menu shows for a script (line 632).
MenuIcon(st, script_name) ==
    LET m == load_last_status(st)
    IN  IF script_name \in DOMAIN m THEN m[script_name] ELSE NOT_RUN_ICON

\* ------------------------------------------------------------------ runner
\* What a child prints, as its lines in order (the last one possibly
\* unterminated).  "x" is ordinary text.
ChildOutputs ==
    { <<>>,
      << <<"x">> >>,
      << <<"x">>, <<"OK", "SP", "x">> >>,
      << <<"WARN", "VS16", "SP", "x">>, <<"SP", "OK", "SP", "x", "SP">> >>,
      << <<"OK", "SP", "x">>, <<"WARN", "VS16", "SP", "SP", "x">> >>,
      << <<"WARN", "SP", "x">> >>,
      << <<"FAIL", "SP", "x">>, <<"x">> >>,
      << <<"OK", "x">>, <<"INFO", "SP", "x">> >> }

\* How one run of a child ends: it exits with a code after printing, the
\* user interrupts the run, or the runner raises (spawn failure).
ChildBehaviours ==
    [how : {"exit"}, rc : 0..MaxRc, output : ChildOutputs]
    \cup [how : {"interrupt", "runner_error"}, rc : {0}, output : {<<>>}]

\* The pump's verdict tracking (lines 300-314): the last line that
\* _extract_status_line accepts.
RECURSIVE LastStatusLine(_, _)
LastStatusLine(lines, status_line) ==
    IF lines = <<>> THEN status_line
    ELSE LET maybe == _extract_status_line(Head(lines))
         IN  LastStatusLine(Tail(lines), IF maybe # None THEN maybe ELSE status_line)

\* run_script whose interrupt handler returns no verdict line.
run_script_InterruptNoLine(script_name, child) ==
    IF Suffix(script_name) \notin {".py", ".sh"}
    THEN [rc |-> 1, status |-> UnsupportedLine(script_name)]
    ELSE IF child.how = "interrupt"
    THEN [rc |-> INTERRUPT_RC, status |-> None]
    ELSE IF child.how = "runner_error"
    THEN [rc |-> RUNNER_ERROR_RC, status |-> RunnerErrorLine(script_name)]
    ELSE LET status_line == LastStatusLine(child.output, None)
         IN  [rc |-> child.rc,
              status |-> IF child.rc # 0 /\ status_line = None
                         THEN FailedLine(script_name, child.rc) ELSE status_line]

run_script(script_name, child) ==
    IF Suffix(script_name) \notin {".py", ".sh"}
    THEN [rc |-> 1, status |-> UnsupportedLine(script_name)]
    ELSE IF child.how = "interrupt"
    THEN [rc |-> INTERRUPT_RC, status |-> InterruptedLine(script_name)]
    ELSE IF child.how = "runner_error"
    THEN [rc |-> RUNNER_ERROR_RC, status |-> RunnerErrorLine(script_name)]
    ELSE LET status_line == LastStatusLine(child.output, None)
             rc == child.rc
         IN  [rc |-> rc,
              status |-> IF rc # 0 /\ status_line = None
                         THEN FailedLine(script_name, rc) ELSE status_line]

\* ------------------------------------------------------- bytes and text
\* The child's output is a sequence of bytes (0..255); decoded text is a
\* sequence of code points.
REPLACEMENT == 65533

IsCont(b) == b >= 128 /\ b <= 191

\* Number of bytes a UTF-8 sequence starting with lead byte b has
\* (0 for a byte that cannot start one).
SeqLen(b) ==
    IF b < 128 THEN 1
    ELSE IF b >= 194 /\ b <= 223 THEN 2
    ELSE IF b >= 224 /\ b <= 239 THEN 3
    ELSE IF b >= 240 /\ b <= 244 THEN 4
    ELSE 0

\* Whether c may follow lead byte b as the second byte.
SecondOk(b, c) ==
    IF b = 224 THEN c >= 160 /\ c <= 191
    ELSE IF b = 237 THEN c >= 128 /\ c <= 159
    ELSE IF b = 240 THEN c >= 144 /\ c <= 191
    ELSE IF b = 244 THEN c >= 128 /\ c <= 143
    ELSE IsCont(c)

\* How many bytes at the start of bs form a valid prefix of one UTF-8
\* sequence, up to the sequence's length.
ValidPrefix(bs) ==
    LET n == SeqLen(bs[1])
        okAt(i) == i <= Len(bs) /\ (IF i = 2 THEN SecondOk(bs[1], bs[2]) ELSE IsCont(bs[i]))
    IN  IF n = 0 THEN 0
        ELSE IF n = 1 \/ ~okAt(2) THEN 1
        ELSE IF n = 2 \/ ~okAt(3) THEN 2
        ELSE IF n = 3 \/ ~okAt(4) THEN 3
        ELSE 4

CodePoint(bs, n) ==
    IF n = 1 THEN bs[1]
    ELSE IF n = 2 THEN (bs[1] % 32) * 64 + (bs[2] % 64)
    ELSE IF n = 3 THEN (bs[1] % 16) * 4096 + (bs[2] % 64) * 64 + (bs[3] % 64)
    ELSE (bs[1] % 8) * 262144 + (bs[2] % 64) * 4096 + (bs[3] % 64) * 64 + (bs[4] % 64)

\* bytes.decode("utf-8", errors="replace"): every maximal ill-formed
\* prefix, a sequence cut short by the end of the input included, becomes
\* one U+FFFD.
RECURSIVE Decode(_)
Decode(bs) ==
    IF bs = <<>> THEN <<>>
    ELSE LET n == SeqLen(bs[1])
             v == ValidPrefix(bs)
         IN  IF n = 0 THEN <<REPLACEMENT>> \o Decode(Tail(bs))
             ELSE IF v = n THEN <<CodePoint(bs, n)>> \o Decode(SubSeq(bs, n + 1, Len(bs)))
             ELSE <<REPLACEMENT>> \o Decode(SubSeq(bs, v + 1, Len(bs)))

\* str.encode("utf-8") of one code point.
EncodeCp(cp) ==
    IF cp < 128 THEN <<cp>>
    ELSE IF cp < 2048 THEN <<192 + (cp \div 64), 128 + (cp % 64)>>
    ELSE IF cp < 65536
    THEN <<224 + (cp \div 4096), 128 + ((cp \div 64) % 64), 128 + (cp % 64)>>
    ELSE <<240 + (cp \div 262144), 128 + ((cp \div 4096) % 64),
           128 + ((cp \div 64) % 64), 128 + (cp % 64)>>

RECURSIVE Encode(_)
Encode(cps) ==
    IF cps = <<>> THEN <<>> ELSE EncodeCp(Head(cps)) \o Encode(Tail(cps))

\* str.isspace() for the code points below U+0100.
IsSpaceCp(cp) == cp \in {9, 10, 11, 12, 13, 28, 29, 30, 31, 32, 133, 160}

\* The character class a code point belongs to (see the head of the module).
CharOf(cp) ==
    IF cp = 9989 THEN "OK"
    ELSE IF cp = 10060 THEN "FAIL"
    ELSE IF cp = 9888 THEN "WARN"
    ELSE IF cp = 65039 THEN "VS16"
    ELSE IF cp = 128221 THEN "INFO"
    ELSE IF cp = 9210 THEN "NOTRUN"
    ELSE IF cp = 10068 THEN "UNKNOWN"
    ELSE IF IsSpaceCp(cp) THEN "SP"
    ELSE "x"

Chars(cps) == [i \in 1..Len(cps) |-> CharOf(cps[i])]

\* The pump's line tracking over one chunk (lines 300-307): st is the pair
\* of line_buf and status_line.
RECURSIVE TrackLines(_, _)
TrackLines(chunk, st) ==
    IF chunk = <<>> THEN st
    ELSE LET buf == Append(st.line_buf, Head(chunk))
         IN  IF Head(chunk) = 10
             THEN LET maybe == _extract_status_line(Chars(Decode(buf)))
                  IN  TrackLines(Tail(chunk),
                                 [line_buf |-> <<>>,
                                  status_line |-> IF maybe # None THEN maybe
                                                  ELSE st.status_line])
             ELSE TrackLines(Tail(chunk), [st EXCEPT !.line_buf = buf])

\* TrailingLine that ignores what is left in line_buf.
TrailingLine_Skipped(st) == st.status_line

\* The check of a final line without a newline (lines 309-314).
TrailingLine(st) ==
    IF st.line_buf # <<>>
    THEN LET maybe == _extract_status_line(Chars(Decode(st.line_buf)))
         IN  IF maybe # None THEN maybe ELSE st.status_line
    ELSE st.status_line

\* ------------------------------------------------------- run-all gating
\* GateBad with the exit-code test placed under the informational guard.
GateBad_InfoWaivesExit(bad, script_name, rc, line) ==
    IF ~is_info_only_script(script_name) /\ (rc # 0 \/ StartsWith(line, <<"FAIL">>))
    THEN TRUE
    ELSE bad

\* GateBad that looks at the exit code only.
GateBad_ExitOnly(bad, script_name, rc, line) ==
    IF rc # 0 THEN TRUE ELSE bad

\* any_bad after one script (lines 686-688 and 693-694).
GateBad(bad, script_name, rc, line) ==
    IF rc # 0 THEN TRUE
    ELSE IF ~is_info_only_script(script_name) /\ StartsWith(line, <<"FAIL">>) THEN TRUE
    ELSE bad

\* GateReview without the informational guard.
GateReview_NoInfoGuard(review, script_name, line) ==
    IF ~StartsWith(line, <<"FAIL">>) /\ StartsWith(line, <<"WARN", "VS16">>)
    THEN TRUE
    ELSE review

\* any_needs_review after one script (lines 686-690).
GateReview(review, script_name, line) ==
    IF /\ ~is_info_only_script(script_name)
       /\ ~StartsWith(line, <<"FAIL">>)
       /\ StartsWith(line, <<"WARN", "VS16">>)
    THEN TRUE
    ELSE review

\* Classify that takes the run for clean whenever nothing failed.
Classify_IgnoresReview(bad, review) ==
    IF ~bad THEN "Clean" ELSE "Failed"

\* Classify that tests any_needs_review before any_bad.
Classify_ReviewFirst(bad, review) ==
    IF ~bad /\ ~review THEN "Clean"
    ELSE IF review THEN "NeedsReview"
    ELSE "Failed"

\* The aggregate line script_menu prints (lines 702-711).
Classify(bad, review) ==
    IF ~bad /\ ~review THEN "Clean"
    ELSE IF ~bad /\ review THEN "NeedsReview"
    ELSE "Failed"

\* The file names in the order Python compares them.
NameOrder == AllScripts \o <<OtherFile>>

NameRank(f) == CHOOSE i \in DOMAIN NameOrder : NameOrder[i] = f

\* sorted(): the least name first.
RECURSIVE Sorted(_)
Sorted(S) ==
    IF S = {} THEN <<>>
    ELSE LET m == CHOOSE x \in S : \A y \in S : NameRank(x) <= NameRank(y)
         IN  <<m>> \o Sorted(S \ {m})

\* sorted() with the order reversed.
RECURSIVE SortedDesc(_)
SortedDesc(S) ==
    IF S = {} THEN <<>>
    ELSE LET m == CHOOSE x \in S : \A y \in S : NameRank(x) >= NameRank(y)
         IN  <<m>> \o SortedDesc(S \ {m})

\* list_scripts that returns the scripts in descending order.
list_scripts_Descending(files) ==
    SortedDesc({f \in files : Suffix(f) \in {".sh", ".py"}})

\* list_scripts: the .sh and .py files of the folder, sorted by name
\* (lines 232-236).
list_scripts(files) == Sorted({f \in files : Suffix(f) \in {".sh", ".py"}})


\* ------------------------------------------------------------ certificate
\* What the issuer finds when it is called: whether ReportLab imports, and
\* how many .docx files lie directly in the book folder.
CertEnvs == [reportlab : BOOLEAN, docx : 0..MaxDocx]

\* book_title_for_certificate: a title for exactly one .docx, else it raises.
book_title_for_certificate(docx) == IF docx = 1 THEN "title" ELSE "raise"

\* write_correctness_certificate: "none" = warning printed and None
\* returned, "raise" = an exception leaves the function, "written" = the
\* path of the saved PDF is returned.
write_correctness_certificate(env) ==
    IF ~env.reportlab THEN "none"
    ELSE IF book_title_for_certificate(env.docx) = "raise" THEN "raise"
    ELSE "written"

\* --------------------------------------------------------------- state
VARIABLES
    scripts,           \* selected_scripts: the folder's scripts, sorted
    store,             \* the .etna_script_status.json file of the book folder
    pc,                \* where script_menu is
    idx,               \* position of the run-all loop in scripts
    summaries,         \* run-all: (script name, canonical line) pairs
    any_bad,           \* run-all accumulator
    any_needs_review,  \* run-all accumulator
    runs,              \* run-all: what run_script returned, per script
    outcome,           \* the aggregate line printed by this pass
    cert,              \* what the certificate issuer did in this pass
    last,              \* arguments and effect of the latest update_last_status
    lastIcon,          \* per script, the icon computed by its latest run
    allWritesOk,       \* no store write has failed so far
    pump,              \* one run_script call seen byte by byte
    proc,              \* the child processes of a run-all pass
    fn,                \* a pure function with its argument and result
    certs              \* the clock and the certificate files written

vars == <<scripts, store, pc, idx, summaries, any_bad, any_needs_review,
          runs, outcome, cert, last, lastIcon, allWritesOk,
          pump, proc, fn, certs>>

\* The variables the menu-level actions leave alone.
auxVars == <<pump, proc, fn, certs>>

PumpIdle == [pc |-> "idle"]

ProcIdle == [alive |-> {}, cur |-> 0, spawned |-> 0]

FnIdle == [op |-> "none"]

CertsIdle == [clock |-> 0, issued |-> <<>>]

NoUpdate == [name |-> "", rc |-> 0, line |-> None, icon |-> None, write |-> "", how |-> ""]

ScriptSet == {AllScripts[i] : i \in DOMAIN AllScripts}

\* The script folders considered: every folder that holds some, but not
\* all, of the scripts of AllScripts (the empty folder included), with or
\* without a file that is not a script.
Folders == {files \in SUBSET (ScriptSet \cup {OtherFile}) : ~(ScriptSet \subseteq files)}

Init ==
    /\ scripts \in {list_scripts(files) : files \in Folders}
    /\ store = AbsentStore
    /\ pc = "menu"
    /\ idx = 0
    /\ summaries = <<>>
    /\ any_bad = FALSE
    /\ any_needs_review = FALSE
    /\ runs = <<>>
    /\ outcome = "none"
    /\ cert = "not_called"
    /\ last = NoUpdate
    /\ lastIcon = [s \in ScriptSet |-> None]
    /\ allWritesOk = TRUE
    /\ pump = PumpIdle
    /\ proc = ProcIdle
    /\ fn = FnIdle
    /\ certs = CertsIdle

\* RunAndRecord that hands run_script's own status line, not the canonical
\* one, to update_last_status.
RunAndRecord_RawStatus(script, child, w) ==
    LET res == run_script(script, child)
        line == canonical_status_line(script, res.rc, res.status)
    IN  /\ store' = update_last_status(store, script, res.rc, res.status, w)
        /\ last' = [name |-> script, rc |-> res.rc, line |-> line,
                    icon |-> StatusIconFor(script, res.rc, res.status),
                    write |-> w, how |-> child.how]
        /\ lastIcon' = [lastIcon EXCEPT ![script] = StatusIconFor(script, res.rc, res.status)]
        /\ allWritesOk' = (allWritesOk /\ w = "ok")

\* run_script, canonical_status_line and update_last_status for one script
\* (lines 679-681 and 715-717).
RunAndRecord(script, child, w) ==
    LET res == run_script(script, child)
        line == canonical_status_line(script, res.rc, res.status)
    IN  /\ store' = update_last_status(store, script, res.rc, line, w)
        /\ last' = [name |-> script, rc |-> res.rc, line |-> line,
                    icon |-> StatusIconFor(script, res.rc, line),
                    write |-> w, how |-> child.how]
        /\ lastIcon' = [lastIcon EXCEPT ![script] = StatusIconFor(script, res.rc, line)]
        /\ allWritesOk' = (allWritesOk /\ w = "ok")

\* Choice 0: start a run-all pass (lines 672-675).
RunAllStart ==
    /\ pc = "menu"
    /\ pc' = "running"
    /\ idx' = 1
    /\ summaries' = <<>>
    /\ any_bad' = FALSE
    /\ any_needs_review' = FALSE
    /\ runs' = <<>>
    /\ outcome' = "none"
    /\ cert' = "not_called"
    /\ UNCHANGED <<scripts, store, last, lastIcon, allWritesOk>>
    /\ UNCHANGED auxVars

\* LoopBody that counts a failed store write as a failure of the script.
LoopBody_WriteFailureCounts(child, w) ==
    LET script == scripts[idx]
        res == run_script(script, child)
        line == canonical_status_line(script, res.rc, res.status)
    IN  /\ RunAndRecord(script, child, w)
        /\ summaries' = Append(summaries, <<script, line>>)
        /\ runs' = Append(runs, [rc |-> res.rc, how |-> child.how])
        /\ any_bad' = (GateBad(any_bad, script, res.rc, line) \/ w # "ok")
        /\ any_needs_review' = GateReview(any_needs_review, script, line)
        /\ idx' = idx + 1
        /\ UNCHANGED <<scripts, pc, outcome, cert>>

\* The body of the run-all loop for the script at idx, given how its run
\* ended and what the store write did (lines 678-696).
LoopBody(child, w) ==
    LET script == scripts[idx]
        res == run_script(script, child)
        line == canonical_status_line(script, res.rc, res.status)
    IN  /\ RunAndRecord(script, child, w)
        /\ summaries' = Append(summaries, <<script, line>>)
        /\ runs' = Append(runs, [rc |-> res.rc, how |-> child.how])
        /\ any_bad' = GateBad(any_bad, script, res.rc, line)
        /\ any_needs_review' = GateReview(any_needs_review, script, line)
        /\ idx' = idx + 1
        /\ UNCHANGED <<scripts, pc, outcome, cert>>

\* One iteration of the run-all loop (lines 677-696).
RunAllStep ==
    /\ pc = "running"
    /\ idx <= Len(scripts)
    /\ \E child \in ChildBehaviours, w \in WriteOutcomes : LoopBody(child, w)
    /\ UNCHANGED auxVars

\* After the loop: Summary, aggregate line, certificate (lines 698-713).
FinishBody ==
    /\ pc = "running"
    /\ idx > Len(scripts)
    /\ outcome' = Classify(any_bad, any_needs_review)
    /\ \E env \in CertEnvs :
         LET result == write_correctness_certificate(env)
         IN  IF outcome' = "Clean"
             THEN /\ cert' = result
                  /\ pc' = IF result = "raise" THEN "crashed" ELSE "pass_done"
             ELSE /\ cert' = "not_called"
                  /\ pc' = "pass_done"
    /\ UNCHANGED <<scripts, store, idx, summaries, any_bad, any_needs_review,
                   runs, last, lastIcon, allWritesOk>>

RunAllFinish ==
    /\ FinishBody
    /\ UNCHANGED auxVars

\* A numbered choice: run one script (lines 715-718).
RunSingle ==
    /\ pc = "menu"
    /\ \E i \in 1..Len(scripts), child \in ChildBehaviours, w \in WriteOutcomes :
         RunAndRecord(scripts[i], child, w)
    /\ pc' = "single_done"
    /\ UNCHANGED <<scripts, idx, summaries, any_bad, any_needs_review,
                   runs, outcome, cert>>
    /\ UNCHANGED auxVars

\* Enter: back to the top of the menu loop, where the screen is cleared and
\* the locals of the finished choice are gone (lines 603-605, 713, 718).
PressEnter ==
    /\ pc \in {"pass_done", "single_done"}
    /\ pc' = "menu"
    /\ idx' = 0
    /\ summaries' = <<>>
    /\ any_bad' = FALSE
    /\ any_needs_review' = FALSE
    /\ runs' = <<>>
    /\ outcome' = "none"
    /\ cert' = "not_called"
    /\ last' = NoUpdate
    /\ UNCHANGED <<scripts, store, lastIcon, allWritesOk>>
    /\ UNCHANGED auxVars

Next ==
    \/ RunAllStart
    \/ RunAllStep
    \/ RunAllFinish
    \/ RunSingle
    \/ PressEnter

Spec == Init /\ [][Next]_vars

\* ------------------------------------------------ run-all, process by process
\* The run-all loop with the child processes made visible: proc.alive holds
\* the launch numbers of the children that have not exited, proc.cur the
\* child run_script is pumping (0 when run_script is not active).
ExitBehaviours == {c \in ChildBehaviours : c.how = "exit"}

InterruptBehaviour == [how |-> "interrupt", rc |-> 0, output |-> <<>>]

RunnerErrorBehaviour == [how |-> "runner_error", rc |-> 0, output |-> <<>>]

InLoop == pc = "running" /\ idx <= Len(scripts)

\* subprocess.Popen succeeds (lines 269-276).
ProcSpawn ==
    /\ InLoop
    /\ proc.cur = 0
    /\ Supported(scripts[idx])
    /\ proc' = [alive |-> proc.alive \cup {proc.spawned + 1},
                cur |-> proc.spawned + 1,
                spawned |-> proc.spawned + 1]
    /\ UNCHANGED <<scripts, store, pc, idx, summaries, any_bad, any_needs_review,
                   runs, outcome, cert, last, lastIcon, allWritesOk>>
    /\ UNCHANGED <<pump, fn, certs>>

\* ProcSpawnFails with the exception leaving script_menu.
ProcSpawnFails_Aborts ==
    /\ InLoop
    /\ proc.cur = 0
    /\ Supported(scripts[idx])
    /\ pc' = "crashed"
    /\ UNCHANGED <<scripts, store, idx, summaries, any_bad, any_needs_review,
                   runs, outcome, cert, last, lastIcon, allWritesOk>>
    /\ UNCHANGED auxVars

\* subprocess.Popen raises: no child, runner-error verdict (lines 327-329).
ProcSpawnFails ==
    /\ InLoop
    /\ proc.cur = 0
    /\ Supported(scripts[idx])
    /\ \E w \in WriteOutcomes : LoopBody(RunnerErrorBehaviour, w)
    /\ UNCHANGED auxVars

\* A child process ends, whether run_script still pumps it or not.
ProcChildExit ==
    /\ \E k \in proc.alive : proc' = [proc EXCEPT !.alive = proc.alive \ {k}]
    /\ UNCHANGED <<scripts, store, pc, idx, summaries, any_bad, any_needs_review,
                   runs, outcome, cert, last, lastIcon, allWritesOk>>
    /\ UNCHANGED <<pump, fn, certs>>

\* ProcReturn that runs the script again when its child exited non-zero.
ProcReturn_Retries ==
    /\ InLoop
    /\ proc.cur # 0
    /\ proc.cur \notin proc.alive
    /\ \/ /\ \E child \in ExitBehaviours, w \in WriteOutcomes :
               child.rc = 0 /\ LoopBody(child, w)
          /\ proc' = [proc EXCEPT !.cur = 0]
       \/ /\ proc.spawned <= Len(scripts)
          /\ proc' = [proc EXCEPT !.cur = 0]
          /\ UNCHANGED <<scripts, store, pc, idx, summaries, any_bad,
                         any_needs_review, runs, outcome, cert, last, lastIcon,
                         allWritesOk>>
    /\ UNCHANGED <<pump, fn, certs>>

\* The pump saw end of output and poll() reported the exit; proc.wait()
\* and the return follow (lines 285-287 and 309-322).
ProcReturn ==
    /\ InLoop
    /\ proc.cur # 0
    /\ proc.cur \notin proc.alive
    /\ \E child \in ExitBehaviours, w \in WriteOutcomes : LoopBody(child, w)
    /\ proc' = [proc EXCEPT !.cur = 0]
    /\ UNCHANGED <<pump, fn, certs>>

\* KeyboardInterrupt inside the try block: run_script returns at once; the
\* child is neither killed nor waited for (lines 324-326).
ProcInterrupt ==
    /\ InLoop
    /\ proc.cur # 0
    /\ \E w \in WriteOutcomes : LoopBody(InterruptBehaviour, w)
    /\ proc' = [proc EXCEPT !.cur = 0]
    /\ UNCHANGED <<pump, fn, certs>>

\* Another exception inside the pump: run_script returns at once; the
\* child is neither killed nor waited for (lines 327-329).
ProcRunnerError ==
    /\ InLoop
    /\ proc.cur # 0
    /\ \E w \in WriteOutcomes : LoopBody(RunnerErrorBehaviour, w)
    /\ proc' = [proc EXCEPT !.cur = 0]
    /\ UNCHANGED <<pump, fn, certs>>

NextProc ==
    \/ RunAllStart
    \/ ProcSpawn
    \/ ProcSpawnFails
    \/ ProcChildExit
    \/ ProcReturn
    \/ ProcInterrupt
    \/ ProcRunnerError
    \/ RunAllFinish

SpecProc == Init /\ [][NextProc]_vars

\* SpecProc with the progress the code and its premise give: every child
\* exits in the end, the pump returns once its child has exited, the loop
\* calls run_script for the next script, and the code after the loop runs.
\* The menu choice and the interrupts are the user's and may never come.
SpecProcFair ==
    /\ SpecProc
    /\ WF_vars(ProcChildExit)
    /\ WF_vars(ProcReturn)
    /\ WF_vars(ProcSpawn \/ ProcSpawnFails)
    /\ WF_vars(RunAllFinish)


\* ================================================================ claims
PassOver == pc \in {"pass_done", "crashed"}

Ran == 1..Len(summaries)

NameOf(i) == summaries[i][1]

LineOf(i) == summaries[i][2]

Gating(i) == ~is_info_only_script(NameOf(i))

\* The line starts with the warning icon in one of the two forms the status
\* grammar accepts.
HasWarningIcon(line) ==
    \/ StartsWith(line, <<"WARN", "VS16">>)
    \/ StartsWith(line, <<"WARN", "SP">>)

\* This step is one iteration of the run-all loop.
IsLoopStep == pc = "running" /\ pc' = "running" /\ idx' = idx + 1

\* This step ran update_last_status.
IsUpdateStep == IsLoopStep \/ (pc = "menu" /\ pc' = "single_done")

\* C1: the certificate issuer is invoked only at the end of a run-all pass
\* whose accumulators are both false; never on NeedsReview or Failed, and
\* never by a single-script run.
C1_CertificateOnlyWhenClean ==
    /\ cert # "not_called" =>
         /\ PassOver
         /\ idx > Len(scripts)
         /\ any_bad = FALSE
         /\ any_needs_review = FALSE
    /\ (PassOver /\ outcome \in {"NeedsReview", "Failed"}) => cert = "not_called"
    /\ pc = "single_done" => cert = "not_called"

C1_Witness ==
    /\ pc = "pass_done"
    /\ cert = "written"
    /\ Len(summaries) = 2
    /\ ~any_bad /\ ~any_needs_review

\* C2: a non-zero exit code of any script of the pass, gating or
\* informational and whatever line it printed, makes any_bad true; the pass
\* ends Failed without a certificate.
C2_NonZeroExitFails ==
    /\ \A i \in 1..Len(runs) : runs[i].rc # 0 => any_bad
    /\ (PassOver /\ \E i \in 1..Len(runs) : runs[i].rc # 0) =>
         /\ outcome = "Failed"
         /\ cert = "not_called"

C2_Witness ==
    /\ pc = "pass_done"
    /\ \E i \in Ran :
         /\ ~Gating(i)
         /\ runs[i].rc # 0
         /\ StartsWith(LineOf(i), <<"OK">>)
    /\ \A i \in Ran : Gating(i) => runs[i].rc = 0 /\ StartsWith(LineOf(i), <<"OK">>)

\* C3: every gating script whose canonical line starts with the warning
\* icon, with or without U+FE0F, sets any_needs_review, so with all exit
\* codes 0 the pass is not Clean and gets no certificate.
C3_WarningLineGates ==
    (PassOver /\ \E i \in Ran : Gating(i) /\ HasWarningIcon(LineOf(i))) =>
        /\ any_needs_review
        /\ (\A i \in Ran : runs[i].rc = 0) => (outcome # "Clean" /\ cert = "not_called")

\* C4: a gating script whose canonical line starts with the failure icon
\* sets any_bad even with exit code 0, and the pass ends Failed.
C4_FailureLineGates ==
    /\ \A i \in Ran : (Gating(i) /\ StartsWith(LineOf(i), <<"FAIL">>)) => any_bad
    /\ (PassOver /\ \E i \in Ran : Gating(i) /\ StartsWith(LineOf(i), <<"FAIL">>)) =>
         outcome = "Failed"

C4_Witness ==
    /\ pc = "pass_done"
    /\ \A i \in Ran : runs[i].rc = 0
    /\ \E i \in Ran : Gating(i) /\ StartsWith(LineOf(i), <<"FAIL">>)

\* C5 (step part): an informational script that exits 0 leaves both
\* accumulators as they were and its line is appended to the Summary.
C5_InfoStepFrame ==
    (/\ IsLoopStep
     /\ is_info_only_script(scripts[idx])
     /\ runs'[idx].rc = 0)
    => /\ any_bad' = any_bad
       /\ any_needs_review' = any_needs_review
       /\ Len(summaries') = Len(summaries) + 1
       /\ SubSeq(summaries', 1, Len(summaries)) = summaries
       /\ summaries'[idx][1] = scripts[idx]
       /\ summaries'[idx][2] = last'.line

\* C5 (pass part): when every gating script exits 0 with a success line and
\* every informational script exits 0, the pass is Clean and the issuer is
\* invoked.
C5_InfoNeverGatesPass ==
    (/\ PassOver
     /\ \A i \in Ran : runs[i].rc = 0
     /\ \A i \in Ran : Gating(i) => StartsWith(LineOf(i), <<"OK">>))
    => /\ outcome = "Clean"
       /\ cert # "not_called"

\* C5: an informational script that exits 0 never changes any_bad or
\* any_needs_review whatever its line, the line still enters the Summary,
\* and such a script never keeps a pass from being Clean.
C5_InfoNeverGates == [][C5_InfoStepFrame]_vars /\ []C5_InfoNeverGatesPass

C5_Witness ==
    /\ pc = "pass_done"
    /\ outcome = "Clean"
    /\ cert = "written"
    /\ \E i \in Ran : ~Gating(i) /\ HasWarningIcon(LineOf(i)) /\ runs[i].rc = 0
    /\ \E i \in Ran : Gating(i)

\* C6 (end of pass): the outcome is decided by the two accumulators alone.
C6_OutcomeFromAccumulators ==
    /\ PassOver => outcome \in {"Failed", "NeedsReview", "Clean"}
    /\ PassOver => (outcome = "Failed" <=> any_bad)
    /\ PassOver => (outcome = "NeedsReview" <=> (~any_bad /\ any_needs_review))
    /\ PassOver => (outcome = "Clean" <=> (~any_bad /\ ~any_needs_review))
    /\ ~PassOver => outcome = "none"

\* C6 (steps): the accumulators start false and no step of the pass turns
\* one of them from true to false.
C6_AccumulatorsMonotone ==
    /\ (pc = "menu" /\ pc' = "running") => (~any_bad' /\ ~any_needs_review')
    /\ (pc = "running") => /\ any_bad => any_bad'
                           /\ any_needs_review => any_needs_review'

\* C6: every run-all pass ends Failed, NeedsReview or Clean as the two
\* accumulators say, and the accumulators start false and are never reset
\* during the pass.
C6_ThreeOutcomes == []C6_OutcomeFromAccumulators /\ [][C6_AccumulatorsMonotone]_vars

C6_Witness ==
    /\ pc = "pass_done"
    /\ any_bad /\ any_needs_review
    /\ outcome = "Failed"

\* C7: a failure of certificate generation, by a missing backend or by the
\* title derivation, ends in a warning and no artifact; no exception leaves
\* the issuer and the pass returns to the menu.  (Stated for passes that
\* ran at least one script and in which every script printed a success
\* line.)
C7_CertificateFailureContained ==
    (Len(scripts) >= 1 /\ \A i \in Ran : StartsWith(LineOf(i), <<"OK">>)) =>
        /\ cert # "raise"
        /\ pc # "crashed"

\* C8: the icon update_last_status writes for a script is decided by the
\* exit code first, then by informational membership, then by
\* normalize_icon of the line, from these three inputs alone.
C8_IconPrecedence ==
    (last.name # "" /\ last.write = "ok") =>
        /\ store.kind = "valid"
        /\ last.name \in DOMAIN store.map
        /\ last.rc # 0 => store.map[last.name] = <<"FAIL">>
        /\ (last.rc = 0 /\ last.name \in INFO_ONLY_SCRIPTS) =>
               store.map[last.name] = <<"INFO">>
        /\ (last.rc = 0 /\ last.name \notin INFO_ONLY_SCRIPTS) =>
               store.map[last.name] = _status_icon_from_status_line(last.line)

C8_Witness ==
    /\ last.write = "ok"
    /\ last.rc # 0
    /\ last.name \in INFO_ONLY_SCRIPTS
    /\ StartsWith(last.line, <<"OK">>)
    /\ store.kind = "valid"
    /\ store.map[last.name] = FAILURE_ICON

C9_StoreReflectsLatestWrittenRun ==
    allWritesOk =>
        \A s \in ScriptSet :
            IF lastIcon[s] # None
            THEN /\ store.kind = "valid"
                 /\ s \in DOMAIN store.map
                 /\ store.map[s] = lastIcon[s]
            ELSE s \notin DOMAIN load_last_status(store)

\* C9 amended (step part): a run whose write succeeds leaves the entry of
\* every other script as load_last_status returned it before.
C9_UpdateFrame ==
    (IsUpdateStep /\ last'.write = "ok") =>
        /\ MenuIcon(store', last'.name) = last'.icon
        /\ \A t \in ScriptSet \ {last'.name} :
              /\ MenuIcon(store', t) = MenuIcon(store, t)
              /\ (t \in DOMAIN load_last_status(store'))
                   <=> (t \in DOMAIN load_last_status(store))

C10_InterruptIsRecordedAndPassGoesOn ==
    /\ \A i \in 1..Len(runs) :
          runs[i].how = "interrupt" =>
             /\ runs[i].rc = 130
             /\ NameOf(i) = scripts[i]
             /\ StartsWith(LineOf(i), <<"FAIL">>)
             /\ \E k \in 1..Len(LineOf(i)) : LineOf(i)[k] = scripts[i]
             /\ \E k \in 1..Len(LineOf(i)) : LineOf(i)[k] = "interrupted (Ctrl+C)"
             /\ any_bad
    /\ (last.how = "interrupt" /\ last.write = "ok") =>
          MenuIcon(store, last.name) = <<"FAIL">>
    /\ PassOver =>
          /\ Len(runs) = Len(scripts)
          /\ Len(summaries) = Len(scripts)
          /\ (\E i \in 1..Len(runs) : runs[i].how = "interrupt") =>
                (outcome = "Failed" /\ pc = "pass_done")

C10_Witness ==
    /\ pc = "pass_done"
    /\ Len(runs) = 2
    /\ runs[1].how = "interrupt"
    /\ runs[2].how = "exit"
    /\ runs[2].rc = 0
    /\ outcome = "Failed"


\* ------------------------------------------------ run_script, byte by byte
\* One call of run_script with the child's output seen as bytes: the child
\* writes into the pipe, the pump reads what is there, copies it to the
\* terminal and tracks the lines.
READ_SIZE == 1024

OKb == <<226, 156, 133>>
FAILb == <<226, 157, 140>>
WARNb == <<226, 154, 160>>
SPb == <<32>>
NLb == <<10>>
Xb == <<120>>

\* What a child writes to its stdout and stderr over its whole life.
Streams ==
    { <<>>,
      Xb \o NLb,
      OKb \o SPb \o Xb \o NLb,
      OKb \o SPb \o Xb \o NLb \o FAILb \o SPb \o Xb,
      WARNb \o SPb \o Xb \o NLb \o Xb \o NLb,
      Xb \o OKb \o SPb \o Xb,
      <<255>> \o NLb }

PumpScripts == {AllScripts[1], OtherFile}

StdoutKinds == {"buffer", "text"}

\* The state of a call right after Popen.
PumpStart(script, out, stream, rc) ==
    [pc |-> "pumping", script |-> script, out |-> out, stream |-> stream,
     exit |-> rc, sent |-> 0, pipe |-> <<>>, alive |-> TRUE, spawned |-> TRUE,
     term |-> <<>>, line_buf |-> <<>>, status_line |-> None,
     closed |-> FALSE, polls |-> 0, read |-> 0, split |-> FALSE,
     how |-> "", rc |-> 0, status |-> None]

\* The state of a call that returned without a child.
PumpNoChild(script, how, rc, status) ==
    [pc |-> "returned", script |-> script, out |-> "buffer", stream |-> <<>>,
     exit |-> 0, sent |-> 0, pipe |-> <<>>, alive |-> FALSE, spawned |-> FALSE,
     term |-> <<>>, line_buf |-> <<>>, status_line |-> None,
     closed |-> FALSE, polls |-> 0, read |-> 0, split |-> FALSE,
     how |-> how, rc |-> rc, status |-> status]

PumpFrame ==
    UNCHANGED <<scripts, store, pc, idx, summaries, any_bad, any_needs_review,
                runs, outcome, cert, last, lastIcon, allWritesOk, proc, fn, certs>>

\* The suffix has no command: return before Popen (lines 265-266).
PumpUnsupported ==
    /\ pump.pc = "idle"
    /\ \E script \in PumpScripts :
         /\ ~Supported(script)
         /\ pump' = PumpNoChild(script, "unsupported", 1, UnsupportedLine(script))
    /\ PumpFrame

\* Popen raises (lines 269-276 and 327-329).
PumpSpawnFails ==
    /\ pump.pc = "idle"
    /\ \E script \in PumpScripts :
         /\ Supported(script)
         /\ pump' = PumpNoChild(script, "runner_error", RUNNER_ERROR_RC,
                                RunnerErrorLine(script))
    /\ PumpFrame

\* Popen succeeds (lines 269-282).
PumpSpawn ==
    /\ pump.pc = "idle"
    /\ \E script \in PumpScripts, out \in StdoutKinds,
          stream \in Streams, rc \in 0..MaxRc :
         /\ Supported(script)
         /\ pump' = PumpStart(script, out, stream, rc)
    /\ PumpFrame

\* The child writes the next bytes of its output into the pipe.
PumpChildWrite ==
    /\ pump.pc = "pumping"
    /\ pump.alive
    /\ ~pump.closed
    /\ \E k \in 1..(Len(pump.stream) - pump.sent) :
         pump' = [pump EXCEPT
                    !.pipe = pump.pipe \o SubSeq(pump.stream, pump.sent + 1, pump.sent + k),
                    !.sent = pump.sent + k]
    /\ PumpFrame

\* The child closes its stdout and stderr after its last write and goes on
\* running.
PumpChildClose ==
    /\ pump.pc = "pumping"
    /\ pump.alive
    /\ ~pump.closed
    /\ pump.sent = Len(pump.stream)
    /\ pump' = [pump EXCEPT !.closed = TRUE]
    /\ PumpFrame

\* The child exits after its last write.
PumpChildExit ==
    /\ pump.pc = "pumping"
    /\ pump.alive
    /\ pump.sent = Len(pump.stream)
    /\ pump' = [pump EXCEPT !.alive = FALSE]
    /\ PumpFrame

\* What the terminal receives for one chunk (lines 290-297).
TerminalBytes(out, chunk) ==
    IF out = "buffer" THEN chunk ELSE Encode(Decode(chunk))

\* PumpRead whose line buffer starts empty with every chunk.
PumpRead_FreshLineBuffer ==
    /\ pump.pc = "pumping"
    /\ pump.pipe # <<>>
    /\ LET n == IF Len(pump.pipe) < READ_SIZE THEN Len(pump.pipe) ELSE READ_SIZE
           chunk == SubSeq(pump.pipe, 1, n)
           st == TrackLines(chunk, [line_buf |-> <<>>,
                                    status_line |-> pump.status_line])
       IN  pump' = [pump EXCEPT
                      !.read = pump.read + n,
                      !.split = pump.split \/ (/\ pump.read + n < Len(pump.stream)
                                               /\ IsCont(pump.stream[pump.read + n + 1])),
                      !.pipe = SubSeq(pump.pipe, n + 1, Len(pump.pipe)),
                      !.term = pump.term \o TerminalBytes(pump.out, chunk),
                      !.line_buf = st.line_buf,
                      !.status_line = st.status_line]
    /\ PumpFrame

\* read(1024) returns the bytes that are in the pipe; they are copied to
\* the terminal and scanned for lines (lines 284 and 289-307).
PumpRead ==
    /\ pump.pc = "pumping"
    /\ pump.pipe # <<>>
    /\ LET n == IF Len(pump.pipe) < READ_SIZE THEN Len(pump.pipe) ELSE READ_SIZE
           chunk == SubSeq(pump.pipe, 1, n)
           st == TrackLines(chunk, [line_buf |-> pump.line_buf,
                                    status_line |-> pump.status_line])
       IN  pump' = [pump EXCEPT
                      !.read = pump.read + n,
                      !.split = pump.split \/ (/\ pump.read + n < Len(pump.stream)
                                               /\ IsCont(pump.stream[pump.read + n + 1])),
                      !.pipe = SubSeq(pump.pipe, n + 1, Len(pump.pipe)),
                      !.term = pump.term \o TerminalBytes(pump.out, chunk),
                      !.line_buf = st.line_buf,
                      !.status_line = st.status_line]
    /\ PumpFrame

\* read returns nothing at end of file while poll() still reports no exit:
\* the loop reads again (lines 284-288).
PumpEmptyRead ==
    /\ pump.pc = "pumping"
    /\ pump.pipe = <<>>
    /\ pump.closed
    /\ pump.alive
    /\ pump.polls < MaxPolls
    /\ pump' = [pump EXCEPT !.polls = pump.polls + 1]
    /\ PumpFrame

\* PumpFinish that takes the first read without data for the end of the
\* stream.
PumpFinish_OnEmptyRead ==
    /\ pump.pc = "pumping"
    /\ pump.pipe = <<>>
    /\ pump.closed \/ ~pump.alive
    /\ LET status_line == TrailingLine([line_buf |-> pump.line_buf,
                                        status_line |-> pump.status_line])
           rc == pump.exit
       IN  pump' = [pump EXCEPT
                      !.pc = "returned",
                      !.how = "exit",
                      !.status_line = status_line,
                      !.rc = rc,
                      !.status = IF rc # 0 /\ status_line = None
                                 THEN FailedLine(pump.script, rc) ELSE status_line]
    /\ PumpFrame

\* read returns nothing and poll() reports the exit: the trailing line is
\* checked and the result returned (lines 285-287 and 309-322).
PumpFinish ==
    /\ pump.pc = "pumping"
    /\ pump.pipe = <<>>
    /\ ~pump.alive
    /\ LET status_line == TrailingLine([line_buf |-> pump.line_buf,
                                        status_line |-> pump.status_line])
           rc == pump.exit
       IN  pump' = [pump EXCEPT
                      !.pc = "returned",
                      !.how = "exit",
                      !.status_line = status_line,
                      !.rc = rc,
                      !.status = IF rc # 0 /\ status_line = None
                                 THEN FailedLine(pump.script, rc) ELSE status_line]
    /\ PumpFrame

\* KeyboardInterrupt inside the try block (lines 324-326).
PumpInterrupt ==
    /\ pump.pc = "pumping"
    /\ pump' = [pump EXCEPT !.pc = "returned", !.how = "interrupt",
                            !.rc = INTERRUPT_RC,
                            !.status = InterruptedLine(pump.script)]
    /\ PumpFrame

\* Another exception inside the try block (lines 327-329).
PumpRunnerError ==
    /\ pump.pc = "pumping"
    /\ pump' = [pump EXCEPT !.pc = "returned", !.how = "runner_error",
                            !.rc = RUNNER_ERROR_RC,
                            !.status = RunnerErrorLine(pump.script)]
    /\ PumpFrame

NextPump ==
    \/ PumpUnsupported
    \/ PumpSpawnFails
    \/ PumpSpawn
    \/ PumpChildWrite
    \/ PumpChildClose
    \/ PumpChildExit
    \/ PumpRead
    \/ PumpEmptyRead
    \/ PumpFinish
    \/ PumpInterrupt
    \/ PumpRunnerError

\* A call of run_script from the menu of a folder without scripts.
InitPump == Init /\ scripts = <<>>

SpecPump == InitPump /\ [][NextPump]_vars

\* ------------------------------------------------------ single functions
\* One call of one function of the module on an argument of its domain.
FnFrame ==
    UNCHANGED <<scripts, store, pc, idx, summaries, any_bad, any_needs_review,
                runs, outcome, cert, last, lastIcon, allWritesOk, pump, proc, certs>>

\* The mappings a store file's text may show.
StoreMaps ==
    {EmptyMap} \cup {[k \in {s} |-> i] : s \in ScriptSet, i \in {SUCCESS_ICON, FAILURE_ICON}}

\* The store files load_last_status may meet: absent, present but not
\* readable, not JSON ("corrupt"), JSON that is not an object, and a JSON
\* object.
StoreFiles ==
    {AbsentStore}
    \cup [kind : {"unreadable", "corrupt", "not_object", "valid"}, map : StoreMaps]

FnLoad ==
    /\ fn.op = "none"
    /\ \E st \in StoreFiles :
         fn' = [op |-> "load", arg |-> st,
                raised |-> LoadEscapes(LoadException(st)),
                result |-> load_last_status(st)]
    /\ FnFrame

\* The characters the lines are made of.
Alphabet == {"OK", "FAIL", "WARN", "VS16", "SP", "x", "INFO"}

Lines == UNION {[1..n -> Alphabet] : n \in 0..MaxLen}

FnExtract ==
    /\ fn.op = "none"
    /\ \E line \in Lines :
         fn' = [op |-> "extract", arg |-> line, raised |-> FALSE,
                result |-> _extract_status_line(line)]
    /\ FnFrame

\* The exit codes a call may be given: a signal's negative code, the
\* child's codes and the interrupt code.
ExitCodes == (-1..MaxRc) \cup {INTERRUPT_RC}

\* The status lines given to canonical_status_line: none, and short lines.
ShortLines == {l \in Lines : Len(l) <= 2}

FnCanonical ==
    /\ fn.op = "none"
    /\ \E script \in ScriptSet \cup {OtherFile}, rc \in ExitCodes, line \in ShortLines :
         fn' = [op |-> "canonical",
                arg |-> [script |-> script, rc |-> rc, line |-> line],
                raised |-> FALSE,
                result |-> canonical_status_line(script, rc, line)]
    /\ FnFrame

\* The lines given to _status_icon_from_status_line.
IconLines == {l \in Lines : Len(l) <= 3}

FnIcon ==
    /\ fn.op = "none"
    /\ \E line \in IconLines :
         fn' = [op |-> "icon", arg |-> line, raised |-> FALSE,
                result |-> _status_icon_from_status_line(line)]
    /\ FnFrame

\* The verdict lines given to update_last_status.
VerdictLines ==
    {None, <<"OK", "SP", "x">>, <<"WARN", "VS16", "SP", "x">>, <<"FAIL", "SP", "x">>}

\* update_last_status called twice in a row with the same arguments, the
\* write behaving the same way both times.
FnUpdateTwice ==
    /\ fn.op = "none"
    /\ \E st \in StoreFiles, script \in ScriptSet, rc \in 0..MaxRc,
          line \in VerdictLines, w \in WriteOutcomes :
         LET once == update_last_status(st, script, rc, line, w)
         IN  fn' = [op |-> "update_twice",
                    arg |-> [store |-> st, script |-> script, rc |-> rc,
                             line |-> line, write |-> w],
                    raised |-> FALSE,
                    once |-> once,
                    result |-> update_last_status(once, script, rc, line, w)]
    /\ FnFrame

NextFn ==
    \/ FnUpdateTwice
    \/ FnLoad
    \/ FnExtract
    \/ FnCanonical
    \/ FnIcon

InitFn == Init /\ scripts = <<>>

SpecFn == InitFn /\ [][NextFn]_vars

\* ------------------------------------------------- certificates over time
\* Run-all passes with the wall clock and the certificate files made
\* visible.  The clock counts half seconds; certs.issued lists, in order of
\* issuance, the path each written certificate was saved to.
MaxClock == 3
MaxIssued == 2

TICKS_PER_SECOND == 2

\* datetime.now().strftime("%Y%m%d_%H%M%S"): the time cut to whole seconds
\* (line 380).
Timestamp(clock) == clock \div TICKS_PER_SECOND

\* out_path for the one book folder considered (line 381).
CertPath(clock) == <<"reports", "certificate_correctness", "book", Timestamp(clock)>>

\* The issuance whose content the file at a path holds: canvas.save()
\* replaces whatever the path held (lines 405 and 579).
FileContent(issued, path) ==
    CHOOSE i \in 1..Len(issued) :
        /\ issued[i] = path
        /\ \A j \in 1..Len(issued) : issued[j] = path => j <= i

CertTick ==
    /\ certs.clock < MaxClock
    /\ certs' = [certs EXCEPT !.clock = certs.clock + 1]
    /\ UNCHANGED <<scripts, store, pc, idx, summaries, any_bad, any_needs_review,
                   runs, outcome, cert, last, lastIcon, allWritesOk>>
    /\ UNCHANGED <<pump, proc, fn>>

CertPassStart ==
    /\ Len(certs.issued) < MaxIssued
    /\ RunAllStart

\* The end of a pass; a written certificate is saved at the path of the
\* current time.
CertFinish ==
    /\ FinishBody
    /\ certs' = IF cert' = "written"
                THEN [certs EXCEPT !.issued = Append(certs.issued, CertPath(certs.clock))]
                ELSE certs
    /\ UNCHANGED <<pump, proc, fn>>

NextCert ==
    \/ CertPassStart
    \/ RunAllStep
    \/ CertFinish
    \/ PressEnter
    \/ CertTick

\* The menu of a folder that holds one script.
InitCert == Init /\ scripts = <<AllScripts[1]>>

SpecCert == InitCert /\ [][NextCert]_vars

\* C11: at every moment of a run-all pass at most one child script process
\* is alive, also after a run ended by an interrupt or a runner exception.
C11_OneChildAtATime == Cardinality(proc.alive) <= 1


\* C12: a failure local to one script never aborts the batch.  A file of
\* unsupported kind is rejected by run_script with exit code 1 and a failure
\* line, and a child is only ever spawned for a supported file; a spawn
\* failure gives exit code 1 and the runner-error failure line, is recorded
\* for that script alone, and the loop goes on with the next script; a pass
\* ends only after every script has its Summary entry.
C12_UnsupportedRejected ==
    \A child \in ChildBehaviours :
        /\ ~Supported(OtherFile)
        /\ run_script(OtherFile, child).rc = 1
        /\ run_script(OtherFile, child).status = UnsupportedLine(OtherFile)
        /\ StartsWith(run_script(OtherFile, child).status, FAILURE_ICON)

C12_SpawnFailureStep ==
    (InLoop /\ proc.cur = 0 /\ proc' = proc) =>
        /\ pc' = "running"
        /\ idx' = idx + 1
        /\ scripts' = scripts
        /\ Len(runs') = Len(runs) + 1
        /\ runs'[Len(runs')] = [rc |-> 1, how |-> "runner_error"]
        /\ Len(summaries') = Len(summaries) + 1
        /\ SubSeq(summaries', 1, Len(summaries)) = summaries
        /\ summaries'[Len(summaries')] =
               <<scripts[idx],
                 canonical_status_line(scripts[idx], 1, RunnerErrorLine(scripts[idx]))>>
        /\ StartsWith(summaries'[Len(summaries')][2], FAILURE_ICON)
        /\ last'.name = scripts[idx]
        /\ last'.rc = 1
        /\ last'.write = "ok" =>
              /\ MenuIcon(store', scripts[idx]) = FAILURE_ICON
              /\ \A t \in ScriptSet \ {scripts[idx]} :
                     MenuIcon(store', t) = MenuIcon(store, t)

C12_LocalFailureDoesNotAbort ==
    /\ [](C12_UnsupportedRejected)
    /\ [](PassOver => Len(summaries) = Len(scripts))
    /\ [][(proc'.spawned # proc.spawned) => Supported(scripts[idx])]_vars
    /\ [][C12_SpawnFailureStep]_vars

\* The spawn of the first script failed and the second script ran to its exit.
C12_Witness ==
    /\ Len(runs) = 2
    /\ runs[1].how = "runner_error"
    /\ runs[2].how = "exit"
    /\ proc.spawned = 1


\* The lines of a byte stream: the pieces between newline bytes, a final
\* piece without a newline included when it is not empty.
RECURSIVE SplitLines(_, _)
SplitLines(bs, cur) ==
    IF bs = <<>> THEN (IF cur = <<>> THEN <<>> ELSE <<cur>>)
    ELSE IF Head(bs) = 10 THEN <<cur>> \o SplitLines(Tail(bs), <<>>)
    ELSE SplitLines(Tail(bs), Append(cur, Head(bs)))

VerdictOf(bytes) == _extract_status_line(Chars(Decode(bytes)))

PumpExited == pump.pc = "returned" /\ pump.how = "exit"

\* C13: for a child that exits normally the verdict run_script returns is
\* the last line of the whole output stream that matches the status-line
\* grammar, a final unterminated line included; lines after it that do not
\* match leave it in place; without any matching line the verdict is absent
\* for exit code 0 and the synthesized failure line otherwise.
C13_LastMatchingLineWins ==
    PumpExited =>
        LET lines == SplitLines(pump.stream, <<>>)
            matching == {i \in 1..Len(lines) : VerdictOf(lines[i]) # None}
        IN  /\ pump.rc = pump.exit
            /\ matching # {} =>
                 \E i \in matching :
                    /\ \A j \in matching : j <= i
                    /\ pump.status = VerdictOf(lines[i])
            /\ matching = {} =>
                 pump.status = IF pump.rc = 0 THEN None
                               ELSE FailedLine(pump.script, pump.rc)

\* A success line, then an unterminated failure line: the failure line wins.
C13_Witness ==
    /\ PumpExited
    /\ pump.stream = OKb \o SPb \o Xb \o NLb \o FAILb \o SPb \o Xb
    /\ pump.status = <<"FAIL", "SP", "x">>

\* A warning line followed by an ordinary line: the warning line stays.
C13_WitnessLaterLine ==
    /\ PumpExited
    /\ pump.stream = WARNb \o SPb \o Xb \o NLb \o Xb \o NLb
    /\ pump.status = <<"WARN", "SP", "x">>


\* C14: what run_script has written to the terminal is at every moment a
\* prefix of what the child has emitted, and is the child's whole output
\* once the child has exited and run_script has returned, for either kind
\* of sys.stdout and any chunk boundaries.
C14_TerminalMirrorsChild ==
    (pump.pc \in {"pumping", "returned"} /\ pump.spawned) =>
        /\ Len(pump.term) <= pump.sent
        /\ pump.term = SubSeq(pump.stream, 1, Len(pump.term))
        /\ PumpExited => pump.term = pump.stream


\* C15 (state part): the scripts of a pass are in ascending filename order
\* without repetition; the Summary and the recorded runs hold one entry
\* for each script already handled, in the order of the scripts; no more
\* children were started than scripts were handled or are being run; a
\* finished pass has handled every script.
C15_InOrder ==
    /\ \A i, j \in 1..Len(scripts) : i < j => NameRank(scripts[i]) < NameRank(scripts[j])
    /\ \A i \in 1..Len(scripts) : Supported(scripts[i])
    /\ pc # "menu" =>
         /\ Len(summaries) = idx - 1
         /\ Len(runs) = idx - 1
         /\ \A i \in Ran : NameOf(i) = scripts[i]
         /\ proc.spawned <= Len(runs) + (IF proc.cur # 0 THEN 1 ELSE 0)
         /\ idx > 1 => last.name = scripts[idx - 1]
    /\ PassOver => Len(summaries) = Len(scripts)

\* C15 (step part): a child is started for the script at idx only, after the
\* store update of the script before it; the store update of a step is the
\* one of the script at idx, and the loop then moves to the next script.
C15_StepOrder ==
    /\ (proc'.spawned # proc.spawned) =>
          /\ InLoop
          /\ proc.cur = 0
          /\ UNCHANGED <<idx, summaries, store, last>>
          /\ idx > 1 => last.name = scripts[idx - 1]
    /\ (last' # last \/ store' # store \/ summaries' # summaries) =>
          /\ InLoop
          /\ idx' = idx + 1
          /\ last'.name = scripts[idx]
          /\ store' = update_last_status(store, scripts[idx], last'.rc, last'.line, last'.write)
          /\ summaries' = Append(summaries, <<scripts[idx], last'.line>>)

\* C15: a run-all pass runs every discovered script exactly once in
\* lexicographic filename order; the Summary has one entry per script in
\* that order, and each store update happens before the next script starts.
C15_EveryScriptOnceInOrder == []C15_InOrder /\ [][C15_StepOrder]_vars

\* A finished pass over two scripts, each run in a child of its own.
C15_Witness ==
    /\ pc = "pass_done"
    /\ Len(scripts) = 2
    /\ proc.spawned = 2
    /\ last.name = scripts[2]


\* C16: load_last_status never raises; for an absent file, an unreadable
\* one, one that is not JSON and one whose JSON is not an object it returns
\* the empty mapping, and the menu then shows every script as not run, as
\* it does for an absent file.
C16_LoadNeverRaises ==
    fn.op = "load" =>
        /\ ~fn.raised
        /\ fn.arg.kind # "valid" =>
             /\ fn.result = EmptyMap
             /\ \A s \in ScriptSet :
                   /\ MenuIcon(fn.arg, s) = NOT_RUN_ICON
                   /\ MenuIcon(fn.arg, s) = MenuIcon(AbsentStore, s)
        /\ fn.arg.kind = "valid" => fn.result = fn.arg.map

\* A file whose JSON is a list that mentions a script.
C16_Witness ==
    /\ fn.op = "load"
    /\ fn.arg.kind = "not_object"
    /\ fn.arg.map # EmptyMap
    /\ fn.result = EmptyMap


\* C17 (step part): what one iteration of the run-all loop does to the
\* Summary, the recorded runs and the accumulators is fixed by the script
\* and by how its run ended, whatever the store holds and whatever the
\* write does; the loop goes on.
C17_StepIgnoresStore ==
    (InLoop /\ idx' = idx + 1) =>
        \E child \in ChildBehaviours :
            LET script == scripts[idx]
                res == run_script(script, child)
                line == canonical_status_line(script, res.rc, res.status)
            IN  /\ summaries' = Append(summaries, <<script, line>>)
                /\ runs' = Append(runs, [rc |-> res.rc, how |-> child.how])
                /\ any_bad' = GateBad(any_bad, script, res.rc, line)
                /\ any_needs_review' = GateReview(any_needs_review, script, line)
                /\ pc' = "running"
                /\ scripts' = scripts

\* C17 (end part): the aggregate line and the decision to call the
\* certificate issuer follow from the accumulators alone.
C17_FinishIgnoresStore ==
    (pc = "running" /\ pc' # "running") =>
        /\ outcome' = Classify(any_bad, any_needs_review)
        /\ (cert' # "not_called") <=> (outcome' = "Clean")

\* C17: a failure to write or read the status store never changes the
\* course of a run: no step ends the program except a raising certificate
\* issuer, and Summary, accumulators, outcome and certificate decision of a
\* pass do not depend on the store or on the outcome of its writes.
C17_StoreFailureChangesNothing ==
    /\ [](pc = "crashed" => cert = "raise")
    /\ [][C17_StepIgnoresStore]_vars
    /\ [][C17_FinishIgnoresStore]_vars

\* A pass over two scripts in which no write ever succeeded ends Clean with
\* its certificate written.
C17_Witness ==
    /\ pc = "pass_done"
    /\ Len(runs) = 2
    /\ store.kind # "valid"
    /\ ~allWritesOk
    /\ outcome = "Clean"
    /\ cert = "written"


\* C18: a certificate file is never overwritten: any two issuances for the
\* same book folder are saved to different paths, so the file of every
\* issuance keeps the content of that issuance.
C18_CertificateNeverOverwritten ==
    /\ \A i, j \in 1..Len(certs.issued) :
          i # j => certs.issued[i] # certs.issued[j]
    /\ \A i \in 1..Len(certs.issued) :
          FileContent(certs.issued, certs.issued[i]) = i


\* The line without its leading and trailing whitespace.
Trimmed(line) ==
    LET solid == {i \in 1..Len(line) : line[i] # "SP"}
    IN  IF solid = {} THEN <<>>
        ELSE LET a == CHOOSE i \in solid : \A j \in solid : i <= j
                 b == CHOOSE i \in solid : \A j \in solid : j <= i
             IN  SubSeq(line, a, b)

\* One of the three icons, U+FE0F or nothing, then a whitespace character.
StatusGrammar(s) ==
    \E k \in {1, 2} :
        /\ Len(s) > k
        /\ s[1] \in {"OK", "FAIL", "WARN"}
        /\ k = 2 => s[2] = "VS16"
        /\ s[k + 1] = "SP"

\* C19: _extract_status_line returns the trimmed line exactly when the
\* trimmed line starts with a success, failure or warning icon, optionally
\* followed by U+FE0F, followed by whitespace; for every other line it
\* returns None.
C19_ExtractGrammar ==
    fn.op = "extract" =>
        /\ ~fn.raised
        /\ StatusGrammar(Trimmed(fn.arg)) => fn.result = Trimmed(fn.arg)
        /\ ~StatusGrammar(Trimmed(fn.arg)) => fn.result = None
        /\ Trimmed(fn.arg) = <<>> => fn.result = None
        /\ Len(Trimmed(fn.arg)) = 1 => fn.result = None
        /\ (Len(Trimmed(fn.arg)) >= 2 /\ Trimmed(fn.arg)[2] = "x") => fn.result = None
        /\ (Trimmed(fn.arg) # <<>> /\ Trimmed(fn.arg)[1] = "INFO") => fn.result = None

\* A warning line with U+FE0F and a trailing newline.
C19_Witness ==
    /\ fn.op = "extract"
    /\ fn.arg = <<"WARN", "VS16", "SP", "x", "SP">>
    /\ fn.result = <<"WARN", "VS16", "SP", "x">>


Contains(s, piece) == \E i \in 1..Len(s) : s[i] = piece

C21_IconByFirstCharacter ==
    fn.op = "icon" =>
        LET t == Trimmed(fn.arg)
        IN  fn.result = IF t = <<>> THEN NOT_RUN_ICON
                        ELSE IF t[1] = "OK" THEN SUCCESS_ICON
                        ELSE IF t[1] = "WARN" THEN WARNING_ICON
                        ELSE IF t[1] = "FAIL" THEN FAILURE_ICON
                        ELSE UNKNOWN_ICON

\* C21 amended: as C21, with the info-only icon mapped to info-only and
\* only the remaining leading characters mapped to unknown.
C21_IconByFirstCharacterOrInfo ==
    fn.op = "icon" =>
        LET t == Trimmed(fn.arg)
        IN  /\ ~fn.raised
            /\ fn.result = IF t = <<>> THEN NOT_RUN_ICON
                           ELSE IF t[1] = "OK" THEN SUCCESS_ICON
                           ELSE IF t[1] = "WARN" THEN WARNING_ICON
                           ELSE IF t[1] = "FAIL" THEN FAILURE_ICON
                           ELSE IF t[1] = "INFO" THEN INFO_ONLY_ICON
                           ELSE UNKNOWN_ICON

\* A line with a leading blank and a bare warning sign.
C21_Witness ==
    /\ fn.op = "icon"
    /\ fn.arg = <<"SP", "WARN", "x">>
    /\ fn.result = WARNING_ICON

\* C22: update_last_status is idempotent: from any store, the mapping
\* stored after two calls in a row with the same arguments is the mapping
\* stored after one.
C22_UpdateIdempotent ==
    fn.op = "update_twice" =>
        /\ ~fn.raised
        /\ load_last_status(fn.result) = load_last_status(fn.once)
        /\ fn.result = fn.once
        /\ fn.arg.write = "ok" =>
              MenuIcon(fn.result, fn.arg.script) =
                  StatusIconFor(fn.arg.script, fn.arg.rc, fn.arg.line)

\* Two successful updates of a store that already holds the script.
C22_Witness ==
    /\ fn.op = "update_twice"
    /\ fn.arg.write = "ok"
    /\ fn.arg.store.kind = "valid"
    /\ fn.arg.script \in DOMAIN fn.arg.store.map
    /\ MenuIcon(fn.result, fn.arg.script) # MenuIcon(fn.arg.store, fn.arg.script)

\* C23 (step part): the pump's loop ends its normal way only when the pipe
\* has nothing left and the child has exited; a read that returns nothing
\* while the child is alive leaves the pump in its loop.
C23_LoopLeave ==
    /\ (pump.pc = "pumping" /\ pump'.pc = "returned" /\ pump'.how = "exit") =>
          /\ pump.pipe = <<>>
          /\ ~pump.alive
          /\ pump.read = Len(pump.stream)
    /\ (pump.pc = "pumping" /\ pump'.polls # pump.polls) =>
          /\ pump.alive
          /\ pump'.pc = "pumping"
          /\ pump'.read = pump.read
          /\ pump'.status_line = pump.status_line

\* C23: the read loop is left only after a read without data with the child
\* exited, so every byte the child emitted has been read, shown (on the
\* binary path) and scanned for the verdict.
C23_NoOutputSkipped ==
    /\ [][C23_LoopLeave]_vars
    /\ [](PumpExited =>
            /\ pump.sent = Len(pump.stream)
            /\ pump.read = pump.sent
            /\ pump.out = "buffer" => pump.term = pump.stream
            /\ pump.line_buf = <<>> \/ pump.line_buf[Len(pump.line_buf)] # 10)

\* The child closed its output, the pump met a read without data while the
\* child was alive, read again, and returned after the exit with the verdict.
C23_Witness ==
    /\ PumpExited
    /\ pump.closed
    /\ pump.polls >= 1
    /\ pump.status = <<"OK", "SP", "x">>

\* C24 (step part): run_script returns while its child is alive only
\* through an interrupt or a runner exception, never through a timeout, and
\* every return moves the loop to the next script.
C24_NoTimeoutNoRetry ==
    (proc.cur # 0 /\ proc'.cur = 0) =>
        /\ idx' = idx + 1
        /\ Len(runs') = Len(runs) + 1
        /\ proc.cur \in proc.alive =>
              runs'[Len(runs')].how \in {"interrupt", "runner_error"}

\* C24: provided every child exits in the end, each run_script call returns
\* in the end and a run-all pass prints its Summary and aggregate outcome
\* in the end; no script is started twice and none is timed out.
C24_PassTerminates ==
    /\ (proc.cur # 0) ~> (proc.cur = 0)
    /\ (pc = "running") ~> (outcome # "none")
    /\ [](proc.spawned <= Len(scripts))
    /\ [][C24_NoTimeoutNoRetry]_vars

\* A finished pass whose first run was interrupted and whose children have
\* all exited.
C24_Witness ==
    /\ pc = "pass_done"
    /\ outcome # "none"
    /\ Len(runs) = 2
    /\ runs[1].how = "interrupt"
    /\ runs[2].how = "exit"
    /\ proc.alive = {}

\* A Summary entry of a gating script that exited 0 without a status line.
NoVerdictEntry(i) ==
    /\ ~is_info_only_script(NameOf(i))
    /\ runs[i] = [rc |-> 0, how |-> "exit"]
    /\ LineOf(i) = NoVerdictLine(NameOf(i))

\* C25 (function part): a child that exits 0 and prints no status line gets
\* the synthesized warning line, which for a gating script maps to the
\* warning icon.
C25_Synthesized ==
    \A child \in ExitBehaviours, s \in ScriptSet :
        (child.rc = 0 /\ LastStatusLine(child.output, None) = None) =>
            LET res == run_script(s, child)
                line == canonical_status_line(s, res.rc, res.status)
            IN  /\ res.status = None
                /\ line = NoVerdictLine(s)
                /\ StartsWith(line, WARNING_ICON)
                /\ ~is_info_only_script(s) => StatusIconFor(s, res.rc, line) = WARNING_ICON

\* C25 (step part): the loop step of such a script sets any_needs_review
\* and stores the warning icon.
C25_Step ==
    (InLoop /\ idx' = idx + 1 /\ ~is_info_only_script(scripts[idx])
       /\ last'.rc = 0 /\ last'.how = "exit"
       /\ last'.line = NoVerdictLine(scripts[idx])) =>
        /\ any_needs_review'
        /\ last'.icon = WARNING_ICON
        /\ last'.write = "ok" => MenuIcon(store', scripts[idx]) = WARNING_ICON

\* C25: a gating script that exits 0 without a status line gets the
\* synthesized warning line, is stored with the warning icon and sets
\* any_needs_review; a pass with such a script ends NeedsReview or Failed,
\* never Clean, and calls no certificate issuer.
C25_SilentSuccessNeedsReview ==
    /\ []C25_Synthesized
    /\ [][C25_Step]_vars
    /\ []((pc # "menu" /\ \E i \in Ran : NoVerdictEntry(i)) => any_needs_review)
    /\ []((PassOver /\ \E i \in Ran : NoVerdictEntry(i)) =>
             /\ outcome \in {"NeedsReview", "Failed"}
             /\ cert = "not_called")

\* A pass of one gating script that printed nothing and exited 0.
C25_Witness ==
    /\ pc = "pass_done"
    /\ Len(runs) = 1
    /\ NoVerdictEntry(1)
    /\ outcome = "NeedsReview"
    /\ MenuIcon(store, NameOf(1)) = WARNING_ICON

\* C26: with no runnable script in the folder no run-all pass is started,
\* so no pass has an empty Summary and no certificate is issued for zero
\* checks.
C26_NoPassWithoutScripts ==
    /\ pc \in {"running", "pass_done", "crashed"} => Len(scripts) >= 1
    /\ PassOver => Len(summaries) >= 1
    /\ cert = "written" => Len(summaries) >= 1

\* The line tracking of a byte sequence taken as a single chunk.
InOneChunk(bytes) == TrackLines(bytes, [line_buf |-> <<>>, status_line |-> None])

\* C27: verdict extraction depends on the bytes read so far and not on how
\* the reads cut them into chunks: line buffer and verdict are at every
\* moment those of the same bytes read as one chunk, and the verdict
\* returned after a normal exit is the one of the whole stream read as one
\* chunk.
C27_ChunkingIrrelevant ==
    (pump.pc \in {"pumping", "returned"} /\ pump.spawned) =>
        LET sofar == InOneChunk(SubSeq(pump.stream, 1, pump.read))
        IN  /\ pump.line_buf = sofar.line_buf
            /\ ~PumpExited => pump.status_line = sofar.status_line
            /\ PumpExited =>
                  /\ pump.status_line = TrailingLine(InOneChunk(pump.stream))
                  /\ pump.status = IF pump.rc # 0 /\ pump.status_line = None
                                   THEN FailedLine(pump.script, pump.rc)
                                   ELSE pump.status_line

\* A stream with two status lines, read with a cut inside a multi-byte
\* character.
C27_Witness ==
    /\ PumpExited
    /\ pump.split
    /\ pump.stream = OKb \o SPb \o Xb \o NLb \o FAILb \o SPb \o Xb
    /\ pump.status = <<"FAIL", "SP", "x">>

\* C28: after any sequence of single runs and run-all passes from an absent
\* store, every stored value is the success, warning (with U+FE0F), failure
\* or info-only icon, never the not-run or the unknown icon; the entry of
\* an informational script is info-only or failure, and stored keys are
\* scripts of the folder.
C28_StoredIcons ==
    LET m == load_last_status(store)
    IN  /\ DOMAIN m \subseteq {scripts[i] : i \in 1..Len(scripts)}
        /\ \A s \in DOMAIN m :
              /\ m[s] \in {SUCCESS_ICON, WARNING_ICON, FAILURE_ICON, INFO_ONLY_ICON}
              /\ m[s] \notin {NOT_RUN_ICON, UNKNOWN_ICON}
              /\ is_info_only_script(s) => m[s] \in {INFO_ONLY_ICON, FAILURE_ICON}
              /\ ~is_info_only_script(s) => m[s] # INFO_ONLY_ICON

\* A store holding an informational script as info-only and a gating script
\* with the warning icon.
C28_Witness ==
    /\ store.kind = "valid"
    /\ \E s, t \in DOMAIN store.map :
          /\ is_info_only_script(s)
          /\ store.map[s] = INFO_ONLY_ICON
          /\ ~is_info_only_script(t)
          /\ store.map[t] = WARNING_ICON

\* C29: at the end of a run-all pass whose store writes succeeded the
\* outcome is Clean exactly when every script of the batch is stored with
\* the success or the info-only icon; no script of a batch that got a
\* certificate is stored with the warning or the failure icon.
C29_IconsAgreeWithOutcome ==
    (PassOver /\ allWritesOk) =>
        /\ (outcome = "Clean") <=>
              (\A i \in Ran : MenuIcon(store, NameOf(i)) \in {SUCCESS_ICON, INFO_ONLY_ICON})
        /\ cert = "written" =>
              \A i \in Ran : MenuIcon(store, NameOf(i)) \notin {WARNING_ICON, FAILURE_ICON}

\* C30: whenever a run-all pass ends Failed, some Summary line starts with
\* the failure icon, and the Summary line of every script that exited
\* non-zero starts with the failure icon.
C30_SummaryExplainsFailure ==
    PassOver =>
        /\ outcome = "Failed" => \E i \in Ran : StartsWith(LineOf(i), FAILURE_ICON)
        /\ \A i \in Ran : runs[i].rc # 0 => StartsWith(LineOf(i), FAILURE_ICON)

====
